---- MODULE Spec2Model ----
(***************************************************************************)
(* The browser console of script.js as a state machine.                   *)
(*                                                                         *)
(* State: the DOM anchor points the script reads and writes (the employee  *)
(* list, the two selectors, the name input, the two buttons, the message   *)
(* area), the timers it has scheduled, the requests it has in flight, and  *)
(* the backend's store the requests are served from.                       *)
(*                                                                         *)
(* An async handler runs synchronously up to its first await and, after    *)
(* its last await, runs to completion in one task: nothing between the two *)
(* awaits touches state.  Each handler is therefore a "Click"/start step   *)
(* (up to the fetch), a backend "Serve" step (the moment the backend       *)
(* processes the request and fixes the response), and a "Complete" step    *)
(* (the rest of the handler, catch and finally included).                  *)
(***************************************************************************)
EXTENDS Integers, Sequences, FiniteSets, Bags, TLC

\* ---------------------------------------------------------------- bounds
\* Every request, timer and employee of a run comes from a click on one of the
\* two buttons, so bounding the clicks bounds them all.
MaxClicks == 2     \* clicks the operator makes on the two buttons
MaxEmployees == 2  \* employees in a response body drawn for the renderers

\* ---------------------------------------------------------------- text
\* Text the operator types is a sequence of characters; names are what
\* trim() leaves of it.
NameInputs == { <<>>, <<" ", " ">>, <<" ", "A", " ">> }

IsSpace(c) == c = " "

RECURSIVE TrimStart(_)
TrimStart(s) ==
    IF s # <<>> /\ IsSpace(Head(s)) THEN TrimStart(Tail(s)) ELSE s

RECURSIVE TrimEnd(_)
TrimEnd(s) ==
    IF s # <<>> /\ IsSpace(s[Len(s)]) THEN TrimEnd(SubSeq(s, 1, Len(s) - 1)) ELSE s

NoTrim(s) == s

\* String.prototype.trim
Trim(s) == TrimEnd(TrimStart(s))

\* `${x}` of a missing field
UndefinedText == <<"undefined">>

\* ---------------------------------------------------------------- JSON
Null == [isNull |-> TRUE]

Has(obj, f) == f \in DOMAIN obj

\* obj.f, undefined rendered by a template literal as "undefined"
FieldText(obj, f) == IF Has(obj, f) THEN obj[f] ELSE UndefinedText

\* a response: the fetch rejected, or an HTTP response with an ok flag and a body
NetFail == [net |-> "fail"]
Http(ok, body) == [net |-> "ok", ok |-> ok, body |-> body]
Invalid == [type |-> "invalid"]                 \* response.json() rejects
Arr(v) == [type |-> "array", v |-> v]
Missing == [type |-> "null"]                    \* null or undefined
Obj(v) == [type |-> "object", v |-> v]

\* ---------------------------------------------------------------- backend data
\* the backend offers one role; role 0 in the store stands for "no role"
RoleIds == {1}
RoleName(r) == "Trainer"
RoleJson(r) == [role_id |-> r, name |-> RoleName(r)]
\* the courses the backend derives from a role
CoursesOf(r) ==
    IF r = 0 THEN <<>>
    ELSE << [title |-> "Safety"], [title |-> "Teaching"] >>

\* what the backend holds when the page loads
InitialStores == { <<>>, << [name |-> <<"B">>, role |-> 1] >> }

\* the Employee JSON of section 6 for store entry i
Snapshot(store, i) ==
    [employee_id |-> i,
     name |-> store[i].name,
     current_role |-> IF store[i].role = 0 THEN Null ELSE RoleJson(store[i].role),
     assigned_courses |-> CoursesOf(store[i].role)]

\* the same entry without assigned_courses (the shape of the spec's examples)
PartialSnapshot(store, i) ==
    [employee_id |-> i,
     name |-> store[i].name,
     current_role |-> IF store[i].role = 0 THEN Null ELSE RoleJson(store[i].role)]

\* an entry without a name
NamelessSnapshot(store, i) ==
    [employee_id |-> i,
     current_role |-> IF store[i].role = 0 THEN Null ELSE RoleJson(store[i].role),
     assigned_courses |-> CoursesOf(store[i].role)]

\* ---------------------------------------------------------------- rendering
SentinelP == [tag |-> "p", text |-> "No employees found.", color |-> ""]
ErrorP == [tag |-> "p", text |-> "Error loading employee data.", color |-> "red"]

\* renderEmployeeCard reads emp.assigned_courses.length: a TypeError when the
\* field is missing
RenderThrows(emp) == ~Has(emp, "assigned_courses")

TitlesNewestFirst(cs) == [k \in 1..Len(cs) |-> cs[Len(cs) + 1 - k].title]

\* assigned_courses.map(c => `<li>${c.title}</li>`)
Titles(cs) == [k \in 1..Len(cs) |-> cs[k].title]

renderCardNullRoleAsText(emp) ==
    [tag |-> "card",
     id |-> emp.employee_id,
     name |-> FieldText(emp, "name"),
     role |-> IF ~Has(emp, "current_role") THEN "Not Assigned"
              ELSE IF emp.current_role = Null THEN "null"
              ELSE emp.current_role.name,
     items |-> IF Len(emp.assigned_courses) > 0
               THEN Titles(emp.assigned_courses) ELSE <<"None">>,
     updated |-> FALSE,
     timers |-> 0]

\* the markup of one card, as the node it parses to
renderEmployeeCard(emp) ==
    [tag |-> "card",
     id |-> emp.employee_id,
     name |-> FieldText(emp, "name"),
     role |-> IF Has(emp, "current_role") /\ emp.current_role # Null
              THEN emp.current_role.name ELSE "Not Assigned",
     items |-> IF Len(emp.assigned_courses) > 0
               THEN Titles(emp.assigned_courses) ELSE <<"None">>,
     updated |-> FALSE,
     timers |-> 0]

renderListEmptyUnmarked(employees) ==
    IF employees = Missing THEN << SentinelP >>
    ELSE [k \in 1..Len(employees.v) |-> renderEmployeeCard(employees.v[k])]

\* renderEmployeeList: the new children of the list region, for the parsed
\* body `employees` (line 52: !employees || employees.length === 0)
renderEmployeeList(employees) ==
    IF employees = Missing \/ Len(employees.v) = 0 THEN << SentinelP >>
    ELSE [k \in 1..Len(employees.v) |-> renderEmployeeCard(employees.v[k])]

\* one <option> per employee
EmployeeOptions(employees) ==
    [k \in 1..Len(employees) |->
        [value |-> employees[k].employee_id, label |-> FieldText(employees[k], "name")]]

RoleOptions(roles) ==
    [k \in 1..Len(roles) |-> [value |-> roles[k].role_id, label |-> roles[k].name]]

\* ---------------------------------------------------------------- DOM helpers
\* document.getElementById('employee-card-' + id): the first card with that id
RECURSIVE FirstCardFrom(_, _, _)
FirstCardFrom(nodes, id, k) ==
    IF k > Len(nodes) THEN 0
    ELSE IF nodes[k].tag = "card" /\ nodes[k].id = id THEN k
    ELSE FirstCardFrom(nodes, id, k + 1)

getElementById(nodes, id) == FirstCardFrom(nodes, id, 1)

\* select.value = v: the first option with that value becomes the selected one
RECURSIVE FirstOptionFrom(_, _, _)
FirstOptionFrom(options, v, k) ==
    IF k > Len(options) THEN 0
    ELSE IF options[k].value = v THEN k
    ELSE FirstOptionFrom(options, v, k + 1)

SetSelectValue(options, v) == FirstOptionFrom(options, v, 1)

\* select.innerHTML = options: a non-empty dropdown shows its first option
DefaultSelection(options) == IF Len(options) > 0 THEN 1 ELSE 0

\* the empty value "" of a dropdown with nothing selected (falsy); ids start at 1
NoValue == 0

\* select.value
SelectValue(options, sel) == IF sel = 0 THEN NoValue ELSE options[sel].value

\* pending highlight timers held by the nodes of a subtree that is dropped
RECURSIVE PendingTimers(_)
PendingTimers(nodes) ==
    IF nodes = <<>> THEN 0
    ELSE (IF Head(nodes).tag = "card" THEN Head(nodes).timers ELSE 0)
         + PendingTimers(Tail(nodes))

\* newCard.classList.add('updated'); setTimeout(..., 2000)
Highlight(card) == [card EXCEPT !.updated = TRUE, !.timers = @ + 1]

\* ---------------------------------------------------------------- Notifier
EmptyText == <<>>

showMessageForGood(d, text, color) ==
    [d EXCEPT !.messageArea = [text |-> text, color |-> color]]

\* showMessage(text, color) on the view d
showMessage(d, text, color) ==
    [d EXCEPT !.messageArea = [text |-> text, color |-> color],
              !.msgTimers = @ + 1]

\* error.message of what each failure raises
FetchFailedMsg == <<"Failed to fetch">>
JsonFailedMsg == <<"Unexpected token in JSON">>
RenderFailedMsg == <<"Cannot read properties of undefined (reading 'length')">>
BackendMsg == <<"backend refused">>
CreateFallbackMsg == <<"Failed to create employee.">>
AssignFallbackMsg == <<"Failed to assign role.">>
CreateValidationMsg == <<"Please enter a name for the new employee.">>
AssignValidationMsg == <<"Please select both an employee and a role.">>
CreatedMsg(emp) ==
    <<"Successfully created employee: ">> \o FieldText(emp, "name") \o <<".">>
AssignedMsg(emp) ==
    <<"Successfully assigned new role to ">> \o FieldText(emp, "name") \o <<".">>

\* body.error || fallback
ErrorOr(body, fallback) == IF Has(body.v, "error") THEN body.v.error ELSE fallback

\* ---------------------------------------------------------------- handlers
\* The view a handler works on:
\*   [list, empOptions, empSel, nameInput, messageArea, msgTimers, hlDetached,
\*    reloads, unhandled]
\* reloads counts the fetchEmployees() calls the handler made; unhandled is set
\* when an exception leaves a handler uncaught.

FetchEmployeesLogsOnly(d, resp) ==
    IF resp.net = "fail" THEN d
    ELSE IF resp.body.type # "array" THEN d
    ELSE LET employees == resp.body.v
             d1 == [d EXCEPT !.empOptions = EmployeeOptions(employees),
                             !.empSel = DefaultSelection(EmployeeOptions(employees))]
         IN  IF \E k \in 1..Len(employees) : RenderThrows(employees[k])
             THEN d1
             ELSE [d1 EXCEPT !.list = renderEmployeeList(resp.body),
                             !.hlDetached = @ + PendingTimers(d.list)]

FetchEmployeesAppends(d, resp) ==
    LET failed == [d EXCEPT !.list = << ErrorP >>,
                            !.hlDetached = @ + PendingTimers(d.list)]
    IN  IF resp.net = "fail" THEN failed
        ELSE IF resp.body.type # "array" THEN failed
        ELSE LET employees == resp.body.v
                 options == d.empOptions \o EmployeeOptions(employees)
                 d1 == [d EXCEPT !.empOptions = options,
                                 !.empSel = DefaultSelection(options)]
             IN  IF \E k \in 1..Len(employees) : RenderThrows(employees[k])
                 THEN [d1 EXCEPT !.list = << ErrorP >>,
                                 !.hlDetached = @ + PendingTimers(d.list)]
                 ELSE [d1 EXCEPT !.list = d.list \o renderEmployeeList(resp.body)]

\* fetchEmployees after its awaits (lines 15-25)
FetchEmployeesDone(d, resp) ==
    LET failed == [d EXCEPT !.list = << ErrorP >>,
                            !.hlDetached = @ + PendingTimers(d.list)]
    IN  IF resp.net = "fail" THEN failed
        ELSE IF resp.body.type = "invalid" THEN failed
        ELSE IF resp.body.type # "array" THEN failed      \* employees.map is not a function
        ELSE LET employees == resp.body.v
                 d1 == [d EXCEPT !.empOptions = EmployeeOptions(employees),
                                 !.empSel = DefaultSelection(EmployeeOptions(employees))]
             IN  IF \E k \in 1..Len(employees) : RenderThrows(employees[k])
                 THEN [d1 EXCEPT !.list = << ErrorP >>,
                                 !.hlDetached = @ + PendingTimers(d.list)]
                 ELSE [d1 EXCEPT !.list = renderEmployeeList(resp.body),
                                 !.hlDetached = @ + PendingTimers(d.list)]

\* handleCreateEmployee, lines 85-110: the success path
CreateSuccess(d, newEmployee) ==
    LET d1 == showMessage(d, CreatedMsg(newEmployee), "green")
        d2 == IF d1.list # <<>> /\ d1.list[1] = SentinelP
              THEN [d1 EXCEPT !.list = <<>>] ELSE d1
    IN  IF RenderThrows(newEmployee)
        THEN showMessage(d2, RenderFailedMsg, "red")
        ELSE LET appended == Append(d2.list, renderEmployeeCard(newEmployee))
                 options == Append(d2.empOptions,
                                   [value |-> newEmployee.employee_id,
                                    label |-> FieldText(newEmployee, "name")])
                 k == getElementById(appended, newEmployee.employee_id)
             IN  [d2 EXCEPT !.list = [appended EXCEPT ![k] = Highlight(@)],
                            !.empOptions = options,
                            !.empSel = SetSelectValue(options, newEmployee.employee_id),
                            !.nameInput = <<>>]

\* handleCreateEmployee after its awaits (lines 79-114), finally apart
CreateEmployeeDone(d, resp) ==
    IF resp.net = "fail" THEN showMessage(d, FetchFailedMsg, "red")
    ELSE IF resp.body.type = "invalid" THEN showMessage(d, JsonFailedMsg, "red")
    ELSE IF ~resp.ok THEN showMessage(d, ErrorOr(resp.body, CreateFallbackMsg), "red")
    ELSE CreateSuccess(d, resp.body.v)

AssignSuccessWithoutFallback(d, updatedEmployee) ==
    LET d1 == showMessage(d, AssignedMsg(updatedEmployee), "green")
        k == getElementById(d1.list, updatedEmployee.employee_id)
    IN  IF k = 0 THEN d1
        ELSE IF RenderThrows(updatedEmployee)
        THEN showMessage(d1, RenderFailedMsg, "red")
        ELSE [d1 EXCEPT !.list[k] = Highlight(renderEmployeeCard(updatedEmployee)),
                        !.hlDetached = @ + d1.list[k].timers]

\* handleAssignRole, lines 146-159: the success path
AssignSuccess(d, updatedEmployee) ==
    LET d1 == showMessage(d, AssignedMsg(updatedEmployee), "green")
        k == getElementById(d1.list, updatedEmployee.employee_id)
    IN  IF k = 0 THEN [d1 EXCEPT !.reloads = @ + 1]
        ELSE IF RenderThrows(updatedEmployee)
        THEN showMessage(d1, RenderFailedMsg, "red")
        ELSE [d1 EXCEPT !.list[k] = Highlight(renderEmployeeCard(updatedEmployee)),
                        !.hlDetached = @ + d1.list[k].timers]

\* handleAssignRole after its awaits (lines 140-163), finally apart
AssignRoleDone(d, resp) ==
    IF resp.net = "fail" THEN showMessage(d, FetchFailedMsg, "red")
    ELSE IF resp.body.type = "invalid" THEN showMessage(d, JsonFailedMsg, "red")
    ELSE IF ~resp.ok THEN showMessage(d, ErrorOr(resp.body, AssignFallbackMsg), "red")
    ELSE AssignSuccess(d, resp.body.v)

BothMissing(employeeId, roleId) == employeeId = NoValue /\ roleId = NoValue

\* line 125: !employeeId || !roleId
SelectionMissing(employeeId, roleId) == employeeId = NoValue \/ roleId = NoValue

\* the buttons
IdleButton(label) == [disabled |-> FALSE, text |-> label]
BusyButton(label) == [disabled |-> TRUE, text |-> label]

RestoreOnSuccessOnly(resp) ==
    IF resp.net = "ok" /\ resp.ok THEN IdleButton("Create Employee")
    ELSE BusyButton("Creating...")

\* the finally blocks (lines 115-118, 164-167): whatever the response was
CreateFinally(resp) == IdleButton("Create Employee")
AssignFinally(resp) == IdleButton("Assign Role")

\* ---------------------------------------------------------------- state
VARIABLES
    db,            \* the backend's employees: <<[name, role]>>, the id is the index
    list,          \* children of #employee-list
    empOptions,    \* options of #employee-select
    empSel,        \* its selected index, 0 for none
    roleOptions,   \* options of #role-select
    roleSel,       \* its selected index, 0 for none
    nameInput,     \* value of #new-employee-name
    createBtn,     \* #create-employee-btn: [disabled, text]
    assignBtn,     \* #assign-role-btn: [disabled, text]
    messageArea,   \* #message-area: [text, color]
    msgTimers,     \* pending message-clear timers (all alike, fired oldest first)
    hlDetached,    \* pending highlight timers whose node is out of the document
    loads,         \* bag of GET /api/employees in flight
    rolesReq,      \* the GET /api/roles of the initial load
    createReq,     \* the POST of handleCreateEmployee
    assignReq,     \* the PUT of handleAssignRole
    unhandled,     \* an exception or rejection left a handler uncaught
    clicks         \* clicks the operator has made on the two buttons

vars == << db, list, empOptions, empSel, roleOptions, roleSel, nameInput, createBtn,
           assignBtn, messageArea, msgTimers, hlDetached, loads, rolesReq, createReq,
           assignReq, unhandled, clicks >>

Sent == [st |-> "sent"]
Resp(r) == [st |-> "resp", resp |-> r]
Idle == [st |-> "idle"]

InFlightLoads == BagCardinality(loads)

\* the view the handlers work on
View ==
    [list |-> list, empOptions |-> empOptions, empSel |-> empSel,
     nameInput |-> nameInput, messageArea |-> messageArea, msgTimers |-> msgTimers,
     hlDetached |-> hlDetached, reloads |-> 0, unhandled |-> unhandled]

\* the view written back
Commit(d) ==
    /\ list' = d.list
    /\ empOptions' = d.empOptions
    /\ empSel' = d.empSel
    /\ nameInput' = d.nameInput
    /\ messageArea' = d.messageArea
    /\ msgTimers' = d.msgTimers
    /\ hlDetached' = d.hlDetached
    /\ unhandled' = d.unhandled

\* the DOMContentLoaded handler has run: both listeners are registered and
\* fetchEmployees() and fetchRoles() are at their first await
Init ==
    /\ db \in InitialStores
    /\ list = <<>>
    /\ empOptions = <<>>
    /\ empSel = 0
    /\ roleOptions = <<>>
    /\ roleSel = 0
    /\ nameInput = <<>>
    /\ createBtn = IdleButton("Create Employee")
    /\ assignBtn = IdleButton("Assign Role")
    /\ messageArea = [text |-> EmptyText, color |-> ""]
    /\ msgTimers = 0
    /\ hlDetached = 0
    /\ loads = SetToBag({Sent})
    /\ rolesReq = Sent
    /\ createReq = Idle
    /\ assignReq = Idle
    /\ unhandled = FALSE
    /\ clicks = 0

\* ---------------------------------------------------------------- the operator
\* (the role dropdown holds one option at most, so there is no role to pick)
TypeName(v) ==
    /\ v # nameInput
    /\ nameInput' = v
    /\ UNCHANGED << db, list, empOptions, empSel, roleOptions, roleSel, createBtn,
                    assignBtn, messageArea, msgTimers, hlDetached, loads, rolesReq,
                    createReq, assignReq, unhandled, clicks >>

PickEmployee(k) ==
    /\ k \in 1..Len(empOptions)
    /\ k # empSel
    /\ empSel' = k
    /\ UNCHANGED << db, list, empOptions, roleOptions, roleSel, nameInput, createBtn,
                    assignBtn, messageArea, msgTimers, hlDetached, loads, rolesReq,
                    createReq, assignReq, unhandled, clicks >>

\* ---------------------------------------------------------------- create
\* click on #create-employee-btn, lines 62-77 (a disabled button fires no click)
CreateClick ==
    /\ ~createBtn.disabled
    /\ clicks < MaxClicks
    /\ clicks' = clicks + 1
    /\ LET name == Trim(nameInput)
       IN  IF name = <<>>
           THEN /\ Commit(showMessage(View, CreateValidationMsg, "red"))
                /\ UNCHANGED << createBtn, createReq >>
           ELSE /\ createBtn' = BusyButton("Creating...")
                /\ createReq' = [st |-> "sent", name |-> name]
                /\ UNCHANGED << list, empOptions, empSel, nameInput, messageArea,
                                msgTimers, hlDetached, unhandled >>
    /\ UNCHANGED << db, roleOptions, roleSel, assignBtn, loads, rolesReq, assignReq >>

\* POST /api/employees at the backend
CreateResponses(store, name) ==
    LET grown == Append(store, [name |-> name, role |-> 0])
    IN  { [db |-> store, resp |-> NetFail],
          [db |-> store, resp |-> Http(FALSE, Invalid)],
          [db |-> store, resp |-> Http(FALSE, Obj([error |-> BackendMsg]))],
          [db |-> store, resp |-> Http(FALSE, Obj([detail |-> BackendMsg]))] }
        \cup { [db |-> grown, resp |-> Http(TRUE, Obj(Snapshot(grown, Len(grown))))],
               [db |-> grown,
                resp |-> Http(TRUE, Obj([employee_id |-> Len(grown), name |-> name]))] }

ServeCreate ==
    /\ createReq.st = "sent"
    /\ \E o \in CreateResponses(db, createReq.name) :
          /\ db' = o.db
          /\ createReq' = Resp(o.resp)
    /\ UNCHANGED << list, empOptions, empSel, roleOptions, roleSel, nameInput, createBtn,
                    assignBtn, messageArea, msgTimers, hlDetached, loads, rolesReq,
                    assignReq, unhandled, clicks >>

\* lines 79-118: the response is in, the handler runs to its end
CreateComplete ==
    /\ createReq.st = "resp"
    /\ Commit(CreateEmployeeDone(View, createReq.resp))
    /\ createBtn' = CreateFinally(createReq.resp)
    /\ createReq' = Idle
    /\ UNCHANGED << db, roleOptions, roleSel, assignBtn, loads, rolesReq, assignReq, clicks >>

\* ---------------------------------------------------------------- assign
\* click on #assign-role-btn, lines 121-138
AssignClick ==
    /\ ~assignBtn.disabled
    /\ clicks < MaxClicks
    /\ clicks' = clicks + 1
    /\ LET employeeId == SelectValue(empOptions, empSel)
           roleId == SelectValue(roleOptions, roleSel)
       IN  IF SelectionMissing(employeeId, roleId)
           THEN /\ Commit(showMessage(View, AssignValidationMsg, "red"))
                /\ UNCHANGED << assignBtn, assignReq >>
           ELSE /\ assignBtn' = BusyButton("Assigning...")
                /\ assignReq' = [st |-> "sent", emp |-> employeeId, role |-> roleId]
                /\ UNCHANGED << list, empOptions, empSel, nameInput, messageArea,
                                msgTimers, hlDetached, unhandled >>
    /\ UNCHANGED << db, roleOptions, roleSel, createBtn, loads, rolesReq, createReq >>

\* PUT /api/employees/{id}/assign-role at the backend
AssignResponses(store, e, r) ==
    LET changed == [store EXCEPT ![e].role = r]
    IN  { [db |-> store, resp |-> NetFail],
          [db |-> store, resp |-> Http(FALSE, Invalid)],
          [db |-> store, resp |-> Http(FALSE, Obj([error |-> BackendMsg]))],
          [db |-> store, resp |-> Http(FALSE, Obj([detail |-> BackendMsg]))] }
        \cup IF e \in 1..Len(store)
             THEN { [db |-> changed, resp |-> Http(TRUE, Obj(Snapshot(changed, e)))],
                    [db |-> changed, resp |-> Http(TRUE, Obj(PartialSnapshot(changed, e)))] }
             ELSE {}

ServeAssign ==
    /\ assignReq.st = "sent"
    /\ \E o \in AssignResponses(db, assignReq.emp, assignReq.role) :
          /\ db' = o.db
          /\ assignReq' = Resp(o.resp)
    /\ UNCHANGED << list, empOptions, empSel, roleOptions, roleSel, nameInput, createBtn,
                    assignBtn, messageArea, msgTimers, hlDetached, loads, rolesReq,
                    createReq, unhandled, clicks >>

\* lines 140-167: the response is in; the fallback's fetchEmployees() runs to
\* its first await inside this task
AssignComplete ==
    /\ assignReq.st = "resp"
    /\ LET d == AssignRoleDone(View, assignReq.resp)
       IN  /\ Commit(d)
           /\ loads' = IF d.reloads = 0 THEN loads
                       ELSE loads (+) [x \in {Sent} |-> d.reloads]
    /\ assignBtn' = AssignFinally(assignReq.resp)
    /\ assignReq' = Idle
    /\ UNCHANGED << db, roleOptions, roleSel, createBtn, rolesReq, createReq, clicks >>

\* ---------------------------------------------------------------- loads
\* GET /api/employees at the backend
AllSnapshots(store) == [k \in 1..Len(store) |-> Snapshot(store, k)]
AllPartial(store) == [k \in 1..Len(store) |-> PartialSnapshot(store, k)]
AllNameless(store) == [k \in 1..Len(store) |-> NamelessSnapshot(store, k)]

LoadResponses(store) ==
    { NetFail,
      Http(FALSE, Invalid),
      Http(FALSE, Obj([error |-> BackendMsg])),
      Http(TRUE, Arr(AllSnapshots(store))) }
    \cup IF Len(store) > 0
         THEN { Http(TRUE, Arr(AllPartial(store))) }
         ELSE {}

\* a backend that leaves the name out of its employees
MalformedLoadResponses(store) ==
    IF Len(store) > 0 THEN { Http(TRUE, Arr(AllNameless(store))) } ELSE {}

ServeLoadWith(responses) ==
    /\ BagIn(Sent, loads)
    /\ \E r \in responses :
          loads' = (loads (-) SetToBag({Sent})) (+) SetToBag({Resp(r)})
    /\ UNCHANGED << db, list, empOptions, empSel, roleOptions, roleSel, nameInput,
                    createBtn, assignBtn, messageArea, msgTimers, hlDetached, rolesReq,
                    createReq, assignReq, unhandled, clicks >>

ServeLoad == ServeLoadWith(LoadResponses(db))

ServeMalformedLoad == ServeLoadWith(MalformedLoadResponses(db))

\* fetchEmployees, lines 15-25: one response is in
LoadComplete(l) ==
    /\ BagIn(l, loads)
    /\ l.st = "resp"
    /\ Commit(FetchEmployeesDone(View, l.resp))
    /\ loads' = loads (-) SetToBag({l})
    /\ UNCHANGED << db, roleOptions, roleSel, createBtn, assignBtn, rolesReq, createReq,
                    assignReq, clicks >>

\* GET /api/roles at the backend
RoleList == << RoleJson(1) >>

RolesResponses == { NetFail, Http(TRUE, Arr(RoleList)) }

ServeRoles ==
    /\ rolesReq = Sent
    /\ \E r \in RolesResponses : rolesReq' = Resp(r)
    /\ UNCHANGED << db, list, empOptions, empSel, roleOptions, roleSel, nameInput,
                    createBtn, assignBtn, messageArea, msgTimers, hlDetached, loads,
                    createReq, assignReq, unhandled, clicks >>

FetchRolesShowsPlaceholder(options, resp) ==
    IF resp.net = "fail" THEN << [value |-> NoValue, label |-> "Error loading roles"] >>
    ELSE IF resp.body.type # "array" THEN options
    ELSE RoleOptions(resp.body.v)

\* fetchRoles after its awaits (lines 31-35): the new options, or the old ones
FetchRolesDone(options, resp) ==
    IF resp.net = "fail" THEN options
    ELSE IF resp.body.type # "array" THEN options
    ELSE RoleOptions(resp.body.v)

RolesComplete ==
    /\ rolesReq.st = "resp"
    /\ roleOptions' = FetchRolesDone(roleOptions, rolesReq.resp)
    /\ roleSel' = IF roleOptions' = roleOptions THEN roleSel
                  ELSE DefaultSelection(roleOptions')
    /\ rolesReq' = Idle
    /\ UNCHANGED << db, list, empOptions, empSel, nameInput, createBtn, assignBtn,
                    messageArea, msgTimers, hlDetached, loads, createReq, assignReq,
                    unhandled, clicks >>

\* ---------------------------------------------------------------- timers
\* line 173: the oldest pending clear fires
MessageTimerFires ==
    /\ msgTimers > 0
    /\ messageArea' = [messageArea EXCEPT !.text = EmptyText]
    /\ msgTimers' = msgTimers - 1
    /\ UNCHANGED << db, list, empOptions, empSel, roleOptions, roleSel, nameInput,
                    createBtn, assignBtn, hlDetached, loads, rolesReq, createReq,
                    assignReq, unhandled, clicks >>

\* lines 109, 155: newCard.classList.remove('updated') on a card in the document
HighlightTimerFires(k) ==
    /\ k \in 1..Len(list)
    /\ list[k].tag = "card"
    /\ list[k].timers > 0
    /\ list' = [list EXCEPT ![k].updated = FALSE, ![k].timers = @ - 1]
    /\ UNCHANGED << db, empOptions, empSel, roleOptions, roleSel, nameInput, createBtn,
                    assignBtn, messageArea, msgTimers, hlDetached, loads, rolesReq,
                    createReq, assignReq, unhandled, clicks >>

\* the same on a card that has left the document: nothing displayed changes
DetachedTimerFires ==
    /\ hlDetached > 0
    /\ hlDetached' = hlDetached - 1
    /\ UNCHANGED << db, list, empOptions, empSel, roleOptions, roleSel, nameInput,
                    createBtn, assignBtn, messageArea, msgTimers, loads, rolesReq,
                    createReq, assignReq, unhandled, clicks >>

\* ---------------------------------------------------------------- specification
LoadCompletes == \E l \in BagToSet(loads) : LoadComplete(l)

Next ==
    \/ \E v \in NameInputs : TypeName(v)
    \/ \E k \in 1..Len(empOptions) : PickEmployee(k)
    \/ CreateClick
    \/ ServeCreate
    \/ CreateComplete
    \/ AssignClick
    \/ ServeAssign
    \/ AssignComplete
    \/ ServeLoad
    \/ LoadCompletes
    \/ ServeRoles
    \/ RolesComplete
    \/ MessageTimerFires
    \/ \E k \in 1..Len(list) : HighlightTimerFires(k)
    \/ DetachedTimerFires

Spec == Init /\ [][Next]_vars

\* a timer set by setTimeout fires once its delay is over: the clear of line 173
\* is not postponed forever
SpecTimers == Spec /\ WF_vars(MessageTimerFires)

\* the same console against a backend whose employee list may also be malformed
NextAnyBody == Next \/ ServeMalformedLoad

SpecAnyBody == Init /\ [][NextAnyBody]_vars

\* ---------------------------------------------------------------- a backend that never fails
\* every request is answered 2xx with the Employee JSON of section 6
ServeCreateOk ==
    /\ createReq.st = "sent"
    /\ LET grown == Append(db, [name |-> createReq.name, role |-> 0])
       IN  /\ db' = grown
           /\ createReq' = Resp(Http(TRUE, Obj(Snapshot(grown, Len(grown)))))
    /\ UNCHANGED << list, empOptions, empSel, roleOptions, roleSel, nameInput, createBtn,
                    assignBtn, messageArea, msgTimers, hlDetached, loads, rolesReq,
                    assignReq, unhandled, clicks >>

ServeAssignOk ==
    /\ assignReq.st = "sent"
    /\ assignReq.emp \in 1..Len(db)
    /\ LET changed == [db EXCEPT ![assignReq.emp].role = assignReq.role]
       IN  /\ db' = changed
           /\ assignReq' = Resp(Http(TRUE, Obj(Snapshot(changed, assignReq.emp))))
    /\ UNCHANGED << list, empOptions, empSel, roleOptions, roleSel, nameInput, createBtn,
                    assignBtn, messageArea, msgTimers, hlDetached, loads, rolesReq,
                    createReq, unhandled, clicks >>

ServeLoadOk == ServeLoadWith({ Http(TRUE, Arr(AllSnapshots(db))) })

ServeRolesOk ==
    /\ rolesReq = Sent
    /\ rolesReq' = Resp(Http(TRUE, Arr(RoleList)))
    /\ UNCHANGED << db, list, empOptions, empSel, roleOptions, roleSel, nameInput,
                    createBtn, assignBtn, messageArea, msgTimers, hlDetached, loads,
                    createReq, assignReq, unhandled, clicks >>

NextAllSucceed ==
    \/ \E v \in NameInputs : TypeName(v)
    \/ \E k \in 1..Len(empOptions) : PickEmployee(k)
    \/ CreateClick
    \/ ServeCreateOk
    \/ CreateComplete
    \/ AssignClick
    \/ ServeAssignOk
    \/ AssignComplete
    \/ ServeLoadOk
    \/ LoadCompletes
    \/ ServeRolesOk
    \/ RolesComplete
    \/ MessageTimerFires
    \/ \E k \in 1..Len(list) : HighlightTimerFires(k)
    \/ DetachedTimerFires

\* the console as the only writer of a backend on which every request succeeds
SpecAllSucceed == Init /\ [][NextAllSucceed]_vars

\* ---------------------------------------------------------------- the renderers' inputs
\* Employee JSON of every shape section 6 allows and the code has a branch for:
\* current_role absent, null or a role; assigned_courses absent, empty or a
\* sequence of courses in either order.
CourseLists ==
    { <<>>,
      << [title |-> "Safety"] >>,
      << [title |-> "Safety"], [title |-> "Teaching"] >>,
      << [title |-> "Teaching"], [title |-> "Safety"] >> }

EmployeesWithoutCourses ==
    [employee_id : 1..MaxEmployees, name : { <<"A">> }]
    \cup [employee_id : 1..MaxEmployees, name : { <<"A">> },
          current_role : { Null, RoleJson(1) }]

EmployeeInputs ==
    EmployeesWithoutCourses
    \cup { e @@ [assigned_courses |-> c] : e \in EmployeesWithoutCourses, c \in CourseLists }

\* sequences of employees with distinct ids, in any order
EmployeeSeqs ==
    UNION { { s \in [1..n -> EmployeeInputs] :
                \A i, j \in 1..n : i # j => s[i].employee_id # s[j].employee_id }
            : n \in 0..MaxEmployees }

ReloadResponses ==
    { NetFail, Http(FALSE, Invalid), Http(TRUE, Missing) }
    \cup { Http(TRUE, Arr(s)) : s \in EmployeeSeqs }

\* fetchEmployees has been called twice (the initial load and a reload) and the
\* backend has answered both reads with the same response
InitReload ==
    /\ db = <<>>
    /\ list = <<>>
    /\ empOptions = <<>>
    /\ empSel = 0
    /\ roleOptions = <<>>
    /\ roleSel = 0
    /\ nameInput = <<>>
    /\ createBtn = IdleButton("Create Employee")
    /\ assignBtn = IdleButton("Assign Role")
    /\ messageArea = [text |-> EmptyText, color |-> ""]
    /\ msgTimers = 0
    /\ hlDetached = 0
    /\ \E r \in ReloadResponses : loads = [l \in { Resp(r) } |-> 2]
    /\ rolesReq = Sent
    /\ createReq = Idle
    /\ assignReq = Idle
    /\ unhandled = FALSE
    /\ clicks = 0

\* the two reads complete one after the other, nothing in between
NextReload == LoadCompletes

SpecReload == InitReload /\ [][NextReload]_vars

\* ---------------------------------------------------------------- vocabulary of the claims
IsBlank(s) == \A i \in 1..Len(s) : s[i] = " "

\* a 2xx response whose body parsed to an object
Succeeded(resp) == resp.net = "ok" /\ resp.ok /\ resp.body.type = "object"

CreateCompletes == createReq.st = "resp" /\ createReq' = Idle
AssignCompletes == assignReq.st = "resp" /\ assignReq' = Idle

\* what a card shows, its highlight left aside
Content(card) == [id |-> card.id, name |-> card.name, role |-> card.role,
                  items |-> card.items]

CardsOf(nodes, e) ==
    { k \in 1..Len(nodes) : nodes[k].tag = "card" /\ nodes[k].id = e }

ContentsOf(nodes, e) == { Content(nodes[k]) : k \in CardsOf(nodes, e) }

DisplayedIds(nodes) == { nodes[k].id : k \in { j \in 1..Len(nodes) : nodes[j].tag = "card" } }

OptionIds(options) == { options[k].value : k \in 1..Len(options) }

\* what a response says a card must show: the role's name or the sentinel, one
\* item per course or the sentinel
ShownRole(emp) ==
    IF Has(emp, "current_role") /\ emp.current_role # Null
    THEN emp.current_role.name ELSE "Not Assigned"

ShownItems(emp) ==
    IF Has(emp, "assigned_courses") /\ emp.assigned_courses # <<>>
    THEN [k \in 1..Len(emp.assigned_courses) |-> emp.assigned_courses[k].title]
    ELSE <<"None">>

Shows(card, emp) ==
    /\ card.tag = "card"
    /\ card.id = emp.employee_id
    /\ card.name = emp.name
    /\ card.role = ShownRole(emp)
    /\ card.items = ShownItems(emp)

\* ---------------------------------------------------------------- claims
\* C1: for every 2xx response to the create request that carries an employee_id
\* and a name, when handleCreateEmployee finishes the selector has gained an
\* option (value employee_id, label name) which is the selected one, the list
\* has gained a card for that employee as its last element, no sentinel is
\* left, and the name input is empty.
C1_CreateSuccessPatchesView ==
    [][ (CreateCompletes /\ Succeeded(createReq.resp)) =>
          LET emp == createReq.resp.body.v
          IN  /\ Len(empOptions') = Len(empOptions) + 1
              /\ empOptions'[Len(empOptions')] =
                    [value |-> emp.employee_id, label |-> emp.name]
              /\ SelectValue(empOptions', empSel') = emp.employee_id
              /\ list' # <<>>
              /\ Shows(list'[Len(list')], emp)
              /\ \A k \in 1..Len(list') : list'[k] # SentinelP
              /\ nameInput' = <<>> ]_vars

\* C2: whenever a card for employee E is displayed and the assign request
\* returns a 2xx response for E carrying employee_id, name and current_role,
\* after handleAssignRole every card keyed by E shows the response: the new
\* role name, nothing of the old card.
C2_AssignSuccessReplacesCard ==
    [][ (AssignCompletes /\ Succeeded(assignReq.resp)
           /\ CardsOf(list, assignReq.resp.body.v.employee_id) # {}) =>
          LET emp == assignReq.resp.body.v
          IN  /\ CardsOf(list', emp.employee_id) # {}
              /\ \A k \in CardsOf(list', emp.employee_id) : Shows(list'[k], emp) ]_vars

\* C3: a button is disabled, with its busy label, exactly while its action has
\* a request in flight; once the handler has finished, on whatever path, the
\* button is enabled and shows its original label.
C3_ButtonsIdleUnlessInFlight ==
    /\ createBtn = IF createReq.st = "idle" THEN IdleButton("Create Employee")
                   ELSE BusyButton("Creating...")
    /\ assignBtn = IF assignReq.st = "idle" THEN IdleButton("Assign Role")
                   ELSE BusyButton("Assigning...")

\* a create that failed at the backend has finished and left its button idle
C3_Witness ==
    /\ createReq = Idle
    /\ messageArea.text = CreateFallbackMsg
    /\ createBtn = IdleButton("Create Employee")

\* C4: a click on create with an empty or whitespace-only name issues no
\* request, shows the validation message, leaves the create button idle and
\* leaves the list, the selector and the name input as they were.
C4_BlankNameIsRejectedLocally ==
    [][ (CreateClick /\ IsBlank(nameInput)) =>
          /\ createReq' = Idle
          /\ loads' = loads /\ assignReq' = assignReq /\ db' = db
          /\ messageArea' = [text |-> CreateValidationMsg, color |-> "red"]
          /\ createBtn' = IdleButton("Create Employee")
          /\ list' = list /\ empOptions' = empOptions /\ empSel' = empSel
          /\ nameInput' = nameInput ]_vars

\* the validation message is up for a whitespace-only name
C4_Witness ==
    /\ nameInput = <<" ", " ">>
    /\ messageArea.text = CreateValidationMsg
    /\ createReq = Idle

\* C5: a click on assign with the employee selection or the role selection
\* unset issues no request, shows the validation message and leaves the assign
\* button idle.
C5_MissingSelectionIsRejectedLocally ==
    [][ (AssignClick /\ (empSel = 0 \/ roleSel = 0)) =>
          /\ assignReq' = Idle
          /\ loads' = loads /\ createReq' = createReq /\ db' = db
          /\ messageArea' = [text |-> AssignValidationMsg, color |-> "red"]
          /\ assignBtn' = IdleButton("Assign Role") ]_vars

\* the validation message is up with an employee selected and, the role load
\* having failed, no role to select
C5_Witness ==
    /\ messageArea.text = AssignValidationMsg
    /\ empSel # 0
    /\ roleSel = 0
    /\ rolesReq = Idle
    /\ assignReq = Idle

\* C6: the text set by the latest showMessage call stays displayed until the
\* clear scheduled by that call fires (clears fire oldest first, so the latest
\* call's clear is pending as long as any is).
C6_LatestMessageStays == msgTimers > 0 => messageArea.text # EmptyText

\* C7: when the assign request succeeds and no displayed card is keyed by the
\* response's employee_id, handleAssignRole changes neither the list nor the
\* selector and starts exactly one GET of the employee collection.
C7_MissingCardFallsBackToOneReload ==
    [][ (AssignCompletes /\ Succeeded(assignReq.resp)
           /\ CardsOf(list, assignReq.resp.body.v.employee_id) = {}) =>
          /\ list' = list
          /\ empOptions' = empOptions
          /\ empSel' = empSel
          /\ loads' = loads (+) SetToBag({Sent}) ]_vars

\* an assignment went through for an employee that has no card, and a reload
\* is on its way
C7_Witness ==
    /\ assignReq = Idle
    /\ \E e \in OptionIds(empOptions) :
          /\ e \notin DisplayedIds(list)
          /\ e \in 1..Len(db)
          /\ messageArea.text = AssignedMsg(Snapshot(db, e))
    /\ BagIn(Sent, loads)

\* C8: a completion only touches the card its own response addresses: what the
\* displayed cards of an employee show changes only in the completion of an
\* assign or create whose response carries that employee's id (a failed load's
\* error state apart).
C8_CompletionsTouchOnlyTheirCard ==
    [][ \A e \in DisplayedIds(list) :
           \/ ContentsOf(list', e) = ContentsOf(list, e)
           \/ AssignCompletes /\ Succeeded(assignReq.resp)
                /\ assignReq.resp.body.v.employee_id = e
           \/ CreateCompletes /\ Succeeded(createReq.resp)
                /\ createReq.resp.body.v.employee_id = e
           \/ list' = << ErrorP >> ]_vars

\* C9: once a card and an option for an employee id are displayed, every later
\* state displays a card and an option for that id (a failed load's error
\* state apart).
C9_DisplayedEmployeesStay ==
    [][ \/ list' = << ErrorP >>
        \/ /\ DisplayedIds(list) \subseteq DisplayedIds(list')
           /\ OptionIds(empOptions) \subseteq OptionIds(empOptions') ]_vars

\* a GET of the employee collection delivers response l
LoadDelivers(l) == l.st = "resp" /\ loads' = loads (-) SetToBag({l})

WellFormedEmployee(emp) ==
    Has(emp, "employee_id") /\ Has(emp, "name") /\ Has(emp, "assigned_courses")

\* the read failed: no response, an unparsable body, or a body that is not a
\* sequence of well-formed employees
ReadFailed(resp) ==
    \/ resp.net = "fail"
    \/ resp.body.type # "array"
    \/ \E k \in 1..Len(resp.body.v) : ~WellFormedEmployee(resp.body.v[k])

\* the read failed in a way the code trips over: no response, an unparsable
\* body, a body that is not a sequence, or an employee without assigned_courses
ReadThrows(resp) ==
    \/ resp.net = "fail"
    \/ resp.body.type # "array"
    \/ \E k \in 1..Len(resp.body.v) : ~Has(resp.body.v[k], "assigned_courses")

\* C10 as stated: on any failure of the employee read, a body that is not a
\* sequence of well-formed employees included, the list region becomes the
\* error message and nothing escapes fetchEmployees.
C10_AnyFailedReadShowsError ==
    [][ \A l \in BagToSet(loads) :
           (LoadDelivers(l) /\ ReadFailed(l.resp)) =>
              list' = << ErrorP >> /\ ~unhandled' ]_vars

\* C10, amended: on a network failure, an unparsable body, a body that is not
\* a sequence, or a sequence holding an employee without assigned_courses, the
\* list region becomes the error message and nothing escapes fetchEmployees.
C10_ThrowingReadShowsError ==
    [][ \A l \in BagToSet(loads) :
           (LoadDelivers(l) /\ ReadThrows(l.resp)) =>
              list' = << ErrorP >> /\ ~unhandled' ]_vars

\* the error message stands in the list region although the selector was filled:
\* the body was a sequence whose rendering failed, or an earlier read succeeded
C10_Witness ==
    /\ list = << ErrorP >>
    /\ empOptions # <<>>
    /\ InFlightLoads = 0
    /\ ~unhandled

\* a GET of the role collection delivers its response
RolesDeliver == rolesReq.st = "resp" /\ rolesReq' = Idle

\* the employee selector and the list region show the employees of a response
Populated(options, nodes, employees) ==
    /\ Len(options) = Len(employees)
    /\ \A k \in 1..Len(employees) :
          options[k] = [value |-> employees[k].employee_id, label |-> employees[k].name]
    /\ IF employees = <<>> THEN nodes = << SentinelP >>
       ELSE /\ Len(nodes) = Len(employees)
            /\ \A k \in 1..Len(employees) : Shows(nodes[k], employees[k])

\* C11: the role load and the employee load are independent failure domains.
\* Whatever the state of the role load (in flight, answered, failed, done), an
\* employee load that delivers a sequence of employees populates the employee
\* selector and the list; a role load that fails leaves the role selector
\* without options and changes nothing else.
C11_LoadsAreIndependent ==
    [][ /\ \A l \in BagToSet(loads) :
             (LoadDelivers(l) /\ ~ReadThrows(l.resp)) =>
                Populated(empOptions', list', l.resp.body.v)
        /\ (RolesDeliver /\ rolesReq.resp.net = "fail") =>
             /\ roleOptions' = <<>>
             /\ roleSel' = 0
             /\ UNCHANGED << db, list, empOptions, empSel, nameInput, createBtn,
                             assignBtn, messageArea, msgTimers, hlDetached, loads,
                             createReq, assignReq, unhandled, clicks >> ]_vars

\* the role load has failed and the employee load has filled the selector and
\* the list with the backend's employee
C11_Witness ==
    /\ rolesReq = Idle
    /\ roleOptions = <<>>
    /\ InFlightLoads = 0
    /\ clicks = 0
    /\ db # <<>>
    /\ Populated(empOptions, list, AllSnapshots(db))

\* the employees of a delivered response all have what renderEmployeeCard reads
Renders(resp) == ~ReadThrows(resp)

\* C12: for every employee whose current_role is null or absent the card
\* produced by renderEmployeeCard shows "Not Assigned" as the role; for every
\* employee with a current_role it shows that role's name.
C12_RoleNameOrNotAssigned ==
    [][ \A l \in BagToSet(loads) :
           (LoadDelivers(l) /\ Renders(l.resp)) =>
              \A k \in 1..Len(l.resp.body.v) :
                 LET emp == l.resp.body.v[k]
                 IN  /\ k \in 1..Len(list')
                     /\ list'[k].tag = "card"
                     /\ list'[k].role =
                           IF ~Has(emp, "current_role") THEN "Not Assigned"
                           ELSE IF emp.current_role = Null THEN "Not Assigned"
                           ELSE emp.current_role.name ]_vars

\* both reads are in; one card shows the sentinel, the other a role's name
C12_Witness ==
    /\ InFlightLoads = 0
    /\ Len(list) = 2
    /\ list[1].tag = "card" /\ list[1].role = "Not Assigned"
    /\ list[2].tag = "card" /\ list[2].role = RoleName(1)

\* C13: for every employee with an empty assigned_courses the card produced by
\* renderEmployeeCard holds the single item "None"; for every other one it holds
\* exactly one item per course, the course's title, in input order, and no
\* "None".
C13_CourseItemsOrNone ==
    [][ \A l \in BagToSet(loads) :
           (LoadDelivers(l) /\ Renders(l.resp)) =>
              \A k \in 1..Len(l.resp.body.v) :
                 LET courses == l.resp.body.v[k].assigned_courses
                 IN  /\ k \in 1..Len(list')
                     /\ list'[k].tag = "card"
                     /\ IF courses = <<>> THEN list'[k].items = << "None" >>
                        ELSE /\ Len(list'[k].items) = Len(courses)
                             /\ \A i \in 1..Len(courses) :
                                   /\ list'[k].items[i] = courses[i].title
                                   /\ list'[k].items[i] # "None" ]_vars

\* both reads are in; one card lists two courses in the order Teaching, Safety,
\* the other the sentinel
C13_Witness ==
    /\ InFlightLoads = 0
    /\ Len(list) = 2
    /\ list[1].tag = "card" /\ list[1].items = << "Teaching", "Safety" >>
    /\ list[2].tag = "card" /\ list[2].items = << "None" >>

\* C14: for every non-empty sequence of employees renderEmployeeList leaves the
\* list region holding exactly one card per employee, in input order, each found
\* by its employee's id; for an empty or a missing sequence it leaves the "No
\* employees found." sentinel alone.
C14_OneCardPerEmployeeOrSentinel ==
    [][ /\ renderEmployeeList(Missing) = << SentinelP >>
        /\ \A l \in BagToSet(loads) :
             (LoadDelivers(l) /\ Renders(l.resp)) =>
                LET employees == l.resp.body.v
                IN  IF employees = <<>> THEN list' = << SentinelP >>
                    ELSE /\ Len(list') = Len(employees)
                         /\ \A k \in 1..Len(employees) :
                               /\ list'[k].tag = "card"
                               /\ list'[k].id = employees[k].employee_id
                               /\ getElementById(list', employees[k].employee_id) = k ]_vars

\* both reads are in; the cards stand in the order of the response, employee 2
\* before employee 1
C14_Witness ==
    /\ InFlightLoads = 0
    /\ Len(list) = 2
    /\ list[1].tag = "card" /\ list[1].id = 2
    /\ list[2].tag = "card" /\ list[2].id = 1

\* C15: a full reload is idempotent: when fetchEmployees runs twice on the same
\* response with no other completion in between, the second run leaves the list
\* markup and the employee selector's options exactly as the first run left them.
C15_ReloadIsIdempotent ==
    [][ \A l \in BagToSet(loads) :
           (LoadDelivers(l) /\ CopiesIn(l, loads) = 1) =>
              /\ list' = list
              /\ empOptions' = empOptions ]_vars

\* both reads of a one-employee collection are in: one card, one option
C15_Witness ==
    /\ InFlightLoads = 0
    /\ Len(list) = 1
    /\ list[1].tag = "card"
    /\ Len(empOptions) = 1
    /\ empOptions[1].value = list[1].id

\* a create or an assign whose response the handler could render
CreateWrites == CreateCompletes /\ Succeeded(createReq.resp)
                   /\ ~RenderThrows(createReq.resp.body.v)
AssignWrites == AssignCompletes /\ Succeeded(assignReq.resp)
                   /\ ~RenderThrows(assignReq.resp.body.v)
                   /\ CardsOf(list, assignReq.resp.body.v.employee_id) # {}

Marked(nodes) == { k \in 1..Len(nodes) : nodes[k].tag = "card" /\ nodes[k].updated }

\* C16: the transient highlight.  The card a successful create appends, or a
\* successful assign puts in place of the old one, is the one card that gets
\* marked; a card is marked exactly as long as its timer is pending, so the
\* marking goes when the timer fires; and the timer of a node that has left the
\* document fires without a failure and without changing anything displayed.
C16_HighlightIsTransient ==
    [][ /\ CreateWrites =>
             /\ Len(list') \in Marked(list')
             /\ \A k \in 1..(Len(list') - 1) :
                   k \in Marked(list') => list'[k] \in { list[j] : j \in Marked(list) }
        /\ AssignWrites =>
             LET k == getElementById(list, assignReq.resp.body.v.employee_id)
             IN  /\ Len(list') = Len(list)
                 /\ k \in Marked(list')
                 /\ Shows(list'[k], assignReq.resp.body.v)
                 /\ \A j \in 1..Len(list) : j # k => list'[j] = list[j]
        /\ \A k \in 1..Len(list') :
             list'[k].tag = "card" => (list'[k].updated <=> list'[k].timers > 0)
        /\ hlDetached' < hlDetached => list' = list /\ ~unhandled' ]_vars

\* C17: every status message clears itself.  The status line is empty whenever
\* no clear is pending, so it is empty from the moment the last call's timer has
\* fired until the next showMessage call; and, the calls being finitely many,
\* the line ends up empty for good.
C17_MessagesSelfClear ==
    /\ [](msgTimers = 0 => messageArea.text = EmptyText)
    /\ <>[](messageArea.text = EmptyText)

\* a red message has been shown and has cleared itself: the text is gone, the
\* colour is still there, no clear is pending
C17_Witness ==
    /\ msgTimers = 0
    /\ messageArea.text = EmptyText
    /\ messageArea.color = "red"

\* C18: in every reachable state the list holds at most one card per
\* employee_id and the employee selector at most one option per employee_id.
C18_KeysAreUnique ==
    /\ \A j, k \in 1..Len(list) :
          (list[j].tag = "card" /\ list[k].tag = "card" /\ list[j].id = list[k].id)
             => j = k
    /\ \A j, k \in 1..Len(empOptions) :
          empOptions[j].value = empOptions[k].value => j = k

\* C19: whenever handleCreateEmployee or handleAssignRole ends in its catch,
\* showing an error message, it has left the list, the employee selector, its
\* selection and the name input as they were.
C19_FailedActionChangesNothing ==
    [][ ((CreateCompletes \/ AssignCompletes) /\ messageArea'.color = "red") =>
          /\ list' = list
          /\ empOptions' = empOptions
          /\ empSel' = empSel
          /\ nameInput' = nameInput ]_vars

\* no request is in flight; the initial load is among the finished ones
Quiescent ==
    /\ InFlightLoads = 0
    /\ rolesReq = Idle
    /\ createReq = Idle
    /\ assignReq = Idle

\* C20: with the console as the backend's only writer and every request
\* succeeding, whenever no request is in flight the list shows exactly the
\* backend's employees, each card showing what the backend now holds for its
\* employee (name, role, courses).
C20_QuiescentViewMatchesBackend ==
    Quiescent =>
       /\ DisplayedIds(list) = 1..Len(db)
       /\ \A k \in 1..Len(list) :
             list[k].tag = "card" => Shows(list[k], Snapshot(db, list[k].id))

====
